---- MODULE Spec2Model ----
(***************************************************************************)
(* Model of src/fastapi/app.py: the upload handler (blob store, metadata   *)
(* row, Celery job), the Celery task compute_and_index (fetch, embed,      *)
(* index write, status write) and the vector search handler.               *)
(*                                                                         *)
(* The three stores are MinIO (blobs), PostgreSQL table sim_images         *)
(* (status) and the Redis search index image_vectors (index); the broker   *)
(* is the Redis list behind celery_app (queue).  Every call to a store,    *)
(* to the broker or to the embedding model either succeeds or raises.      *)
(***************************************************************************)
EXTENDS Integers, FiniteSets, Sequences, TLC

\* ------------------------------------------------------------------ bounds
MaxImages == 2
MaxRedeliveries == 2
MaxDocs == 11

\* The retry limit the specification names (section 8, scenario 3); the
\* source defines no such limit.
max_attempts == 3

\* The maximum top_k of the specification (section 4.4).  It names no value
\* and the source defines none; the default serves as the maximum here.
max_top_k == 10

Ids == 1..MaxImages
DocIds == 1..MaxDocs
NoId == 0
Uploaders == {"u1"}
Searchers == {"s1", "s2"}
Workers == {"w1", "w2"}

VARIABLES
    blobs,        \* object keys present in the MinIO bucket (by image id)
    status,       \* sim_images.status per image id; "none" = no row
    index,        \* number of documents stored under key img:<id>
    queue,        \* number of compute_and_index messages per id in the broker
    issued,       \* ids uuid4 has produced so far
    upc, uid,     \* upload_image: position and image_id of each request
    returned,     \* number of 200 responses that carried each id
    uploadErr,    \* the call whose exception made the upload of an id a 500
    wpc, wjob,    \* compute_and_index: position and image_id of each worker
    wredo,        \* whether the row was already 'indexed' at the delivery
    wemb,         \* the normalised embedding x the task holds, if any
    delivered,    \* deliveries of the job of each id
    redelivered,  \* messages the broker has delivered a second time
    embedFailed,  \* deliveries of each id that ended in model.encode raising
    spc,          \* search_vector: position of each request
    stext,        \* its query_text form field ("None" = not supplied)
    simage,       \* its query_image upload ("None" = not supplied)
    sfrom,        \* the branch that computed its query vector q
    sq,           \* the content its query vector q was computed from
    sraised,      \* the exception raised inside its try block, if any
    sout,         \* its response: "results", "empty", "400" or "500"
    stopk,        \* its top_k form field (<<>> = not supplied)
    sknn,         \* how its Redis search call ended: "ok" or "failed"
    sres,         \* the image ids of its result list, in order
    queryFile     \* content of the file /tmp/query.img

pipeVars == <<blobs, status, index, queue, issued, upc, uid, returned,
              uploadErr, wpc, wjob, wredo, wemb, delivered, redelivered,
              embedFailed>>
searchVars == <<spc, stext, simage, sfrom, sq, sraised, sout, stopk, sknn,
                sres, queryFile>>
vars == <<blobs, status, index, queue, issued, upc, uid, returned,
          uploadErr, wpc, wjob, wredo, wemb, delivered, redelivered,
          embedFailed,
          spc, stext, simage, sfrom, sq, sraised, sout, stopk, sknn, sres,
          queryFile>>

\* ------------------------------------------------------------------ Init
\* The state after start-up, with the documents 1..n already uploaded and
\* indexed (n = 0: the empty deployment ensure_tables, ensure_bucket and
\* ensure_redis_index leave behind).
InitWith(n) ==
    /\ blobs = 1..n
    /\ status = [i \in DocIds |-> IF i <= n THEN "indexed" ELSE "none"]
    /\ index = [i \in DocIds |-> IF i <= n THEN 1 ELSE 0]
    /\ queue = [i \in DocIds |-> 0]
    /\ issued = 1..n
    /\ upc = [c \in Uploaders |-> "idle"]
    /\ uid = [c \in Uploaders |-> NoId]
    /\ returned = [i \in DocIds |-> IF i <= n THEN 1 ELSE 0]
    /\ uploadErr = [i \in DocIds |-> "none"]
    /\ wpc = [w \in Workers |-> "idle"]
    /\ wjob = [w \in Workers |-> NoId]
    /\ wredo = [w \in Workers |-> FALSE]
    /\ wemb = [w \in Workers |-> "none"]
    /\ delivered = [i \in DocIds |-> IF i <= n THEN 1 ELSE 0]
    /\ redelivered = 0
    /\ embedFailed = [i \in DocIds |-> 0]
    /\ spc = [c \in Searchers |-> "idle"]
    /\ stext = [c \in Searchers |-> "None"]
    /\ simage = [c \in Searchers |-> "None"]
    /\ sfrom = [c \in Searchers |-> "none"]
    /\ sq = [c \in Searchers |-> "none"]
    /\ sraised = [c \in Searchers |-> "none"]
    /\ sout = [c \in Searchers |-> "none"]
    /\ stopk = [c \in Searchers |-> <<>>]
    /\ sknn = [c \in Searchers |-> "none"]
    /\ sres = [c \in Searchers |-> <<>>]
    /\ queryFile = "none"

Init == InitWith(0)

\* The searches run against an empty index, an index of one document and
\* an index of MaxDocs documents.
InitSearch == \E n \in {0, 1, MaxDocs} : InitWith(n)

\* ---------------------------------------------------------- upload_image
\* Mutant of NewImageId: an id generator that can repeat a value.
ReusedImageId == Ids

\* image_id = str(uuid.uuid4()): a value no earlier call produced.
NewImageId == Ids \ issued

\* The ids are opaque and interchangeable: the least candidate stands for
\* whichever value uuid4 returns.
UploadStart(c) ==
    /\ upc[c] = "idle"
    /\ \E i \in NewImageId :
        /\ \A j \in NewImageId : i <= j
        /\ uid' = [uid EXCEPT ![c] = i]
        /\ issued' = issued \cup {i}
    /\ upc' = [upc EXCEPT ![c] = "put"]
    /\ UNCHANGED <<blobs, status, index, queue, returned, uploadErr,
                   wpc, wjob, wredo, wemb,
                   delivered, redelivered, embedFailed>>
    /\ UNCHANGED searchVars

\* An exception anywhere in the try block becomes HTTPException(500): the
\* handler stops there and nothing after the failing call runs.
UploadRaise(c, call) ==
    /\ uploadErr' = [uploadErr EXCEPT ![uid[c]] = call]
    /\ upc' = [upc EXCEPT ![c] = "idle"]
    /\ uid' = [uid EXCEPT ![c] = NoId]

\* mc.put_object(...) stores the object.
UploadPutOk(c) ==
    /\ upc[c] = "put"
    /\ blobs' = blobs \cup {uid[c]}
    /\ upc' = [upc EXCEPT ![c] = "insert"]
    /\ UNCHANGED <<status, index, queue, issued, uid, returned, uploadErr,
                   wpc, wjob, wredo, wemb,
                   delivered, redelivered, embedFailed>>
    /\ UNCHANGED searchVars

\* Mutant of UploadPutFail: the exception of put_object is swallowed and the
\* handler goes on to the INSERT.
UploadPutFailSwallowed(c) ==
    /\ upc[c] = "put"
    /\ uploadErr' = [uploadErr EXCEPT ![uid[c]] = "put"]
    /\ upc' = [upc EXCEPT ![c] = "insert"]
    /\ UNCHANGED <<blobs, status, index, queue, issued, uid, returned,
                   wpc, wjob, wredo, wemb,
                   delivered, redelivered, embedFailed>>
    /\ UNCHANGED searchVars

\* mc.put_object(...) raises.
UploadPutFail(c) ==
    /\ upc[c] = "put"
    /\ UploadRaise(c, "put")
    /\ UNCHANGED <<blobs, status, index, queue, issued, returned,
                   wpc, wjob, wredo, wemb,
                   delivered, redelivered, embedFailed>>
    /\ UNCHANGED searchVars

\* INSERT INTO sim_images (..., status) VALUES (..., 'pending')
\* ON CONFLICT (image_id) DO NOTHING
InsertRow(st, i) ==
    IF st[i] = "none" THEN [st EXCEPT ![i] = "pending"] ELSE st

UploadInsertOk(c) ==
    /\ upc[c] = "insert"
    /\ status' = InsertRow(status, uid[c])
    /\ upc' = [upc EXCEPT ![c] = "delay"]
    /\ UNCHANGED <<blobs, index, queue, issued, uid, returned, uploadErr,
                   wpc, wjob, wredo, wemb,
                   delivered, redelivered, embedFailed>>
    /\ UNCHANGED searchVars

\* Mutant of UploadInsertFail: the exception of the INSERT is swallowed and
\* the handler goes on to enqueue the job.
UploadInsertFailSwallowed(c) ==
    /\ upc[c] = "insert"
    /\ uploadErr' = [uploadErr EXCEPT ![uid[c]] = "insert"]
    /\ upc' = [upc EXCEPT ![c] = "delay"]
    /\ UNCHANGED <<blobs, status, index, queue, issued, uid, returned,
                   wpc, wjob, wredo, wemb,
                   delivered, redelivered, embedFailed>>
    /\ UNCHANGED searchVars

\* pg_conn() or the INSERT raises.
UploadInsertFail(c) ==
    /\ upc[c] = "insert"
    /\ UploadRaise(c, "insert")
    /\ UNCHANGED <<blobs, status, index, queue, issued, returned,
                   wpc, wjob, wredo, wemb,
                   delivered, redelivered, embedFailed>>
    /\ UNCHANGED searchVars

\* compute_and_index.delay(image_id, object_key, title, tag_list)
UploadDelayOk(c) ==
    /\ upc[c] = "delay"
    /\ queue' = [queue EXCEPT ![uid[c]] = @ + 1]
    /\ upc' = [upc EXCEPT ![c] = "return"]
    /\ UNCHANGED <<blobs, status, index, issued, uid, returned, uploadErr,
                   wpc, wjob, wredo, wemb,
                   delivered, redelivered, embedFailed>>
    /\ UNCHANGED searchVars

\* .delay raises (broker unreachable): the row stays, no message is sent.
UploadDelayFail(c) ==
    /\ upc[c] = "delay"
    /\ UploadRaise(c, "delay")
    /\ UNCHANGED <<blobs, status, index, queue, issued, returned,
                   wpc, wjob, wredo, wemb,
                   delivered, redelivered, embedFailed>>
    /\ UNCHANGED searchVars

\* return {"image_id": image_id, "status": "queued"}
UploadReturn(c) ==
    /\ upc[c] = "return"
    /\ returned' = [returned EXCEPT ![uid[c]] = @ + 1]
    /\ upc' = [upc EXCEPT ![c] = "idle"]
    /\ uid' = [uid EXCEPT ![c] = NoId]
    /\ UNCHANGED <<blobs, status, index, queue, issued, uploadErr,
                   wpc, wjob, wredo, wemb,
                   delivered, redelivered, embedFailed>>
    /\ UNCHANGED searchVars

\* ------------------------------------------------------ compute_and_index
\* The broker hands a message to a worker.  The task is declared with a bare
\* @celery_app.task, so the message is acknowledged when the task starts:
\* it leaves the queue here and no failure of the task puts it back.
Deliver(w) ==
    /\ wpc[w] = "idle"
    /\ \E i \in Ids :
        /\ queue[i] > 0
        /\ queue' = [queue EXCEPT ![i] = @ - 1]
        /\ delivered' = [delivered EXCEPT ![i] = @ + 1]
        /\ wjob' = [wjob EXCEPT ![w] = i]
        /\ wredo' = [wredo EXCEPT ![w] = (status[i] = "indexed")]
    /\ wpc' = [wpc EXCEPT ![w] = "fget"]
    /\ UNCHANGED <<blobs, status, index, issued, upc, uid, returned,
                   uploadErr, wemb, redelivered, embedFailed>>
    /\ UNCHANGED searchVars

\* At-least-once delivery of the Redis broker: a message that was delivered
\* before is delivered again (a reserved message restored after the
\* visibility timeout).
Redeliver(i) ==
    /\ delivered[i] > 0
    /\ redelivered < MaxRedeliveries
    /\ redelivered' = redelivered + 1
    /\ queue' = [queue EXCEPT ![i] = @ + 1]
    /\ UNCHANGED <<blobs, status, index, issued, upc, uid, returned,
                   uploadErr, wpc, wjob, wredo, wemb, delivered,
                   embedFailed>>
    /\ UNCHANGED searchVars

\* The task raises (or the worker process dies): the delivery ends here.
TaskEnd(w) ==
    /\ wpc' = [wpc EXCEPT ![w] = "idle"]
    /\ wjob' = [wjob EXCEPT ![w] = NoId]
    /\ wredo' = [wredo EXCEPT ![w] = FALSE]
    /\ wemb' = [wemb EXCEPT ![w] = "none"]

\* mc.fget_object(MINIO_BUCKET, object_key, tmp.name)
FgetOk(w) ==
    /\ wpc[w] = "fget"
    /\ wjob[w] \in blobs
    /\ wpc' = [wpc EXCEPT ![w] = "encode"]
    /\ UNCHANGED <<blobs, status, index, queue, issued, upc, uid, returned,
                   uploadErr, wjob, wredo, wemb, delivered, redelivered,
                   embedFailed>>
    /\ UNCHANGED searchVars

FgetFail(w) ==
    /\ wpc[w] = "fget"
    /\ TaskEnd(w)
    /\ UNCHANGED <<blobs, status, index, queue, issued, upc, uid, returned,
                   uploadErr, delivered, redelivered, embedFailed>>
    /\ UNCHANGED searchVars

\* What model.encode can return: a vector with a norm, or the zero vector.
RawEmbeddings == {"vec", "zero"}

\* x = x / np.linalg.norm(x, axis=1, keepdims=True): numpy divides 0 by 0
\* to NaN with a warning and raises nothing.
Normalize(e) == IF e = "zero" THEN "nan" ELSE "unit"

\* SentenceTransformer(...) ; model.encode(...) ; normalisation
EncodeOk(w) ==
    /\ wpc[w] = "encode"
    /\ \E e \in RawEmbeddings : wemb' = [wemb EXCEPT ![w] = Normalize(e)]
    /\ wpc' = [wpc EXCEPT ![w] = "add"]
    /\ UNCHANGED <<blobs, status, index, queue, issued, upc, uid, returned,
                   uploadErr, wjob, wredo, delivered, redelivered,
                   embedFailed>>
    /\ UNCHANGED searchVars

\* Mutant of EncodeFail: on an embedding failure the task stores a
\* placeholder document for the image before it ends.
EncodeFailStoresPlaceholder(w) ==
    /\ wpc[w] = "encode"
    /\ embedFailed' = [embedFailed EXCEPT ![wjob[w]] = @ + 1]
    /\ index' = [index EXCEPT ![wjob[w]] = 1]
    /\ TaskEnd(w)
    /\ UNCHANGED <<blobs, status, queue, issued, upc, uid, returned,
                   uploadErr, delivered, redelivered>>
    /\ UNCHANGED searchVars

\* model.encode (or the model load before it) raises.
EncodeFail(w) ==
    /\ wpc[w] = "encode"
    /\ embedFailed' = [embedFailed EXCEPT ![wjob[w]] = @ + 1]
    /\ TaskEnd(w)
    /\ UNCHANGED <<blobs, status, index, queue, issued, upc, uid, returned,
                   uploadErr, delivered, redelivered>>
    /\ UNCHANGED searchVars

\* Mutant of AddDocument: every call stores one more document for the id.
AddDocumentAppend(ix, i) == [ix EXCEPT ![i] = @ + 1]

\* r.ft("image_vectors").add_document(f"img:{image_id}", ...): the document
\* is stored under the key img:<id>; a key holds one document.
AddDocument(ix, i) == [ix EXCEPT ![i] = 1]

AddDocumentOk(w) ==
    /\ wpc[w] = "add"
    /\ index' = AddDocument(index, wjob[w])
    /\ wpc' = [wpc EXCEPT ![w] = "update"]
    /\ UNCHANGED <<blobs, status, queue, issued, upc, uid, returned,
                   uploadErr, wjob, wredo, wemb, delivered, redelivered,
                   embedFailed>>
    /\ UNCHANGED searchVars

\* Mutant of AddDocumentFail: the exception of add_document is swallowed
\* and the task goes on to the status UPDATE.
AddDocumentFailSwallowed(w) ==
    /\ wpc[w] = "add"
    /\ wpc' = [wpc EXCEPT ![w] = "update"]
    /\ UNCHANGED <<blobs, status, index, queue, issued, upc, uid, returned,
                   uploadErr, wjob, wredo, wemb, delivered, redelivered,
                   embedFailed>>
    /\ UNCHANGED searchVars

\* add_document raises: Redis unreachable, or (the call passes no
\* replace=True) "Document already exists" for a key that holds a document.
\* Whether an existing key is overwritten or refused is left to the server:
\* both AddDocumentOk and AddDocumentFail are enabled there.
AddDocumentFail(w) ==
    /\ wpc[w] = "add"
    /\ TaskEnd(w)
    /\ UNCHANGED <<blobs, status, index, queue, issued, upc, uid, returned,
                   uploadErr, delivered, redelivered, embedFailed>>
    /\ UNCHANGED searchVars

\* Mutant of UpdateIndexed: a run on a row that is already 'indexed' puts
\* it back to 'pending'.
UpdateIndexedRegress(st, i) ==
    IF st[i] = "none" THEN st
    ELSE [st EXCEPT ![i] = IF @ = "indexed" THEN "pending" ELSE "indexed"]

\* UPDATE sim_images SET status='indexed' WHERE image_id=%s
UpdateIndexed(st, i) ==
    IF st[i] = "none" THEN st ELSE [st EXCEPT ![i] = "indexed"]

UpdateStatusOk(w) ==
    /\ wpc[w] = "update"
    /\ status' = UpdateIndexed(status, wjob[w])
    /\ TaskEnd(w)
    /\ UNCHANGED <<blobs, index, queue, issued, upc, uid, returned,
                   uploadErr, delivered, redelivered, embedFailed>>
    /\ UNCHANGED searchVars

\* pg_conn() or the UPDATE raises.
UpdateStatusFail(w) ==
    /\ wpc[w] = "update"
    /\ TaskEnd(w)
    /\ UNCHANGED <<blobs, status, index, queue, issued, upc, uid, returned,
                   uploadErr, delivered, redelivered, embedFailed>>
    /\ UNCHANGED searchVars

\* The worker process dies while it runs the task.  The message was
\* acknowledged when the task started (no acks_late on the task or the
\* app), so the broker does not hold it any more.
WorkerCrash(w) ==
    /\ wpc[w] # "idle"
    /\ TaskEnd(w)
    /\ UNCHANGED <<blobs, status, index, queue, issued, upc, uid, returned,
                   uploadErr, delivered, redelivered, embedFailed>>
    /\ UNCHANGED searchVars

\* ----------------------------------------------------------- search_vector
\* Form values of a request: query_text is absent, empty or a text;
\* query_image is absent or an uploaded file.
QueryTexts == {"None", "", "cat"}
QueryImages == {"None", "imgA", "imgB"}

\* top_k: int = Form(10): the form field is absent (<<>>) or holds a number.
DefaultTopK == 10
TopKForms == {<<>>, <<1>>, <<MaxDocs>>}
FormTopK(f) == IF f = <<>> THEN DefaultTopK ELSE f[1]

\* Python truth value of query_text in "if query_text:".
Truthy(t) == t # "None" /\ t # ""

SearchStart(c) ==
    /\ spc[c] \in {"idle", "done"}
    /\ \E t \in QueryTexts, f \in QueryImages, k \in TopKForms :
        /\ stext' = [stext EXCEPT ![c] = t]
        /\ simage' = [simage EXCEPT ![c] = f]
        /\ stopk' = [stopk EXCEPT ![c] = k]
    /\ spc' = [spc EXCEPT ![c] = "load"]
    /\ sfrom' = [sfrom EXCEPT ![c] = "none"]
    /\ sq' = [sq EXCEPT ![c] = "none"]
    /\ sraised' = [sraised EXCEPT ![c] = "none"]
    /\ sout' = [sout EXCEPT ![c] = "none"]
    /\ sknn' = [sknn EXCEPT ![c] = "none"]
    /\ sres' = [sres EXCEPT ![c] = <<>>]
    /\ UNCHANGED queryFile
    /\ UNCHANGED pipeVars

\* The outer handler "except Exception as e: raise HTTPException(500, ...)":
\* every exception raised inside the try block, the HTTPException(400) of
\* the else branch included, leaves the handler as a 500.
OuterExcept(raised) == "500"

SearchRespond(c, out) ==
    /\ sout' = [sout EXCEPT ![c] = out]
    /\ spc' = [spc EXCEPT ![c] = "done"]
    /\ UNCHANGED sraised

\* An exception raised inside the outer try block ends the request.
SearchRaise(c, raised) ==
    /\ sraised' = [sraised EXCEPT ![c] = raised]
    /\ sout' = [sout EXCEPT ![c] = OuterExcept(raised)]
    /\ spc' = [spc EXCEPT ![c] = "done"]

\* model = SentenceTransformer(...)
SearchLoadOk(c) ==
    /\ spc[c] = "load"
    /\ spc' = [spc EXCEPT ![c] = "branch"]
    /\ UNCHANGED <<stext, simage, stopk, sfrom, sq, sraised, sout, queryFile>>
    /\ UNCHANGED <<sknn, sres>>
    /\ UNCHANGED pipeVars

SearchLoadFail(c) ==
    /\ spc[c] = "load"
    /\ SearchRaise(c, "error")
    /\ UNCHANGED <<stext, simage, stopk, sfrom, sq, queryFile>>
    /\ UNCHANGED <<sknn, sres>>
    /\ UNCHANGED pipeVars

\* if query_text: ... elif query_image is not None: ... else: raise 400
SearchBranch(c) ==
    /\ spc[c] = "branch"
    /\ IF Truthy(stext[c])
       THEN /\ spc' = [spc EXCEPT ![c] = "enctext"]
            /\ UNCHANGED <<sout, sraised>>
       ELSE IF simage[c] # "None"
       THEN /\ spc' = [spc EXCEPT ![c] = "write"]
            /\ UNCHANGED <<sout, sraised>>
       ELSE SearchRaise(c, "400")
    /\ UNCHANGED <<stext, simage, stopk, sfrom, sq, queryFile>>
    /\ UNCHANGED <<sknn, sres>>
    /\ UNCHANGED pipeVars

\* q = model.encode([query_text], ...)
SearchEncodeTextOk(c) ==
    /\ spc[c] = "enctext"
    /\ sfrom' = [sfrom EXCEPT ![c] = "text"]
    /\ sq' = [sq EXCEPT ![c] = stext[c]]
    /\ spc' = [spc EXCEPT ![c] = "knn"]
    /\ UNCHANGED <<stext, simage, stopk, sraised, sout, queryFile>>
    /\ UNCHANGED <<sknn, sres>>
    /\ UNCHANGED pipeVars

SearchEncodeTextFail(c) ==
    /\ spc[c] = "enctext"
    /\ SearchRaise(c, "error")
    /\ UNCHANGED <<stext, simage, stopk, sfrom, sq, queryFile>>
    /\ UNCHANGED <<sknn, sres>>
    /\ UNCHANGED pipeVars

\* data = await query_image.read(); open("/tmp/query.img", "wb").write(data)
\* Every request writes the same path.  Requests served by different server
\* processes of one host interleave between this write and the encode.
SearchWriteFile(c) ==
    /\ spc[c] = "write"
    /\ queryFile' = simage[c]
    /\ spc' = [spc EXCEPT ![c] = "encimg"]
    /\ UNCHANGED <<stext, simage, stopk, sfrom, sq, sraised, sout>>
    /\ UNCHANGED <<sknn, sres>>
    /\ UNCHANGED pipeVars

\* q = model.encode(["/tmp/query.img"], ...)
SearchEncodeImageOk(c) ==
    /\ spc[c] = "encimg"
    /\ sfrom' = [sfrom EXCEPT ![c] = "image"]
    /\ sq' = [sq EXCEPT ![c] = queryFile]
    /\ spc' = [spc EXCEPT ![c] = "knn"]
    /\ UNCHANGED <<stext, simage, stopk, sraised, sout, queryFile>>
    /\ UNCHANGED <<sknn, sres>>
    /\ UNCHANGED pipeVars

SearchEncodeImageFail(c) ==
    /\ spc[c] = "encimg"
    /\ SearchRaise(c, "error")
    /\ UNCHANGED <<stext, simage, stopk, sfrom, sq, queryFile>>
    /\ UNCHANGED <<sknn, sres>>
    /\ UNCHANGED pipeVars

\* The documents of the index image_vectors.
Docs(ix) == {i \in DOMAIN ix : ix[i] >= 1}

\* Cosine similarity of a stored embedding and the query vector, as a rank:
\* a text query and the image queries order the documents differently.
Score(i, q) ==
    IF q = "cat" THEN i
    ELSE IF q = "imgA" THEN MaxDocs + 1 - i
    ELSE IF i % 2 = 0 THEN MaxDocs + i ELSE i

\* The document of S nearest to q (ties: the least id).
Nearest(S, q) ==
    CHOOSE b \in S :
        \A o \in S : Score(b, q) > Score(o, q)
                       \/ (Score(b, q) = Score(o, q) /\ b <= o)

\* The KNN clause "*=>[KNN {top_k} @embedding $query_vector]": the k
\* documents nearest to q, nearest first.
RECURSIVE Knn(_, _, _)
Knn(S, q, k) ==
    IF k <= 0 \/ S = {} THEN <<>>
    ELSE LET b == Nearest(S, q) IN <<b>> \o Knn(S \ {b}, q, k - 1)

\* search() is called with a query string and no paging: FT.SEARCH returns
\* the first 10 results of the query (LIMIT 0 10).
DefaultLimit == 10
Paging(r) == SubSeq(r, 1, IF Len(r) < DefaultLimit THEN Len(r) ELSE DefaultLimit)

\* The top_k the handler writes into the KNN clause: the form value as it
\* came, with no upper limit.
KnnTopK(c) == FormTopK(stopk[c])

\* for doc in search_results.docs: results.append({...}), in reply order.
SearchReply(c) == Paging(Knn(Docs(index), sq[c], KnnTopK(c)))

\* Mutant of SearchKnnFail: without the inner except the exception of the
\* Redis search reaches the outer handler.
SearchKnnFailRaised(c) ==
    /\ spc[c] = "knn"
    /\ sknn' = [sknn EXCEPT ![c] = "failed"]
    /\ SearchRaise(c, "error")
    /\ UNCHANGED <<stext, simage, stopk, sfrom, sq, sres, queryFile>>
    /\ UNCHANGED pipeVars

\* r.ft("image_vectors").search(...) ; return {"results": results}
SearchKnnOk(c) ==
    /\ spc[c] = "knn"
    /\ sknn' = [sknn EXCEPT ![c] = "ok"]
    /\ sres' = [sres EXCEPT ![c] = SearchReply(c)]
    /\ SearchRespond(c, "results")
    /\ UNCHANGED <<stext, simage, stopk, sfrom, sq, queryFile>>
    /\ UNCHANGED pipeVars

\* inner "except Exception as e: return {"results": []}"
SearchKnnFail(c) ==
    /\ spc[c] = "knn"
    /\ sknn' = [sknn EXCEPT ![c] = "failed"]
    /\ sres' = [sres EXCEPT ![c] = <<>>]
    /\ SearchRespond(c, "empty")
    /\ UNCHANGED <<stext, simage, stopk, sfrom, sq, queryFile>>
    /\ UNCHANGED pipeVars

\* ------------------------------------------------------------------ Next
Next ==
    \/ \E c \in Uploaders : UploadStart(c)
    \/ \E c \in Uploaders : UploadPutOk(c)
    \/ \E c \in Uploaders : UploadPutFail(c)
    \/ \E c \in Uploaders : UploadInsertOk(c)
    \/ \E c \in Uploaders : UploadInsertFail(c)
    \/ \E c \in Uploaders : UploadDelayOk(c)
    \/ \E c \in Uploaders : UploadDelayFail(c)
    \/ \E c \in Uploaders : UploadReturn(c)
    \/ \E w \in Workers : Deliver(w)
    \/ \E i \in Ids : Redeliver(i)
    \/ \E w \in Workers : WorkerCrash(w)
    \/ \E w \in Workers : FgetOk(w)
    \/ \E w \in Workers : FgetFail(w)
    \/ \E w \in Workers : EncodeOk(w)
    \/ \E w \in Workers : EncodeFail(w)
    \/ \E w \in Workers : AddDocumentOk(w)
    \/ \E w \in Workers : AddDocumentFail(w)
    \/ \E w \in Workers : UpdateStatusOk(w)
    \/ \E w \in Workers : UpdateStatusFail(w)

Spec == Init /\ [][Next]_vars

NextSearch ==
    \/ \E c \in Searchers : SearchStart(c)
    \/ \E c \in Searchers : SearchLoadOk(c)
    \/ \E c \in Searchers : SearchLoadFail(c)
    \/ \E c \in Searchers : SearchBranch(c)
    \/ \E c \in Searchers : SearchEncodeTextOk(c)
    \/ \E c \in Searchers : SearchEncodeTextFail(c)
    \/ \E c \in Searchers : SearchWriteFile(c)
    \/ \E c \in Searchers : SearchEncodeImageOk(c)
    \/ \E c \in Searchers : SearchEncodeImageFail(c)
    \/ \E c \in Searchers : SearchKnnOk(c)
    \/ \E c \in Searchers : SearchKnnFail(c)

SpecSearch == InitSearch /\ [][NextSearch]_vars

\* Fairness of the deployment: a running upload request and a running task
\* take their next step (each call returns or raises), and an idle worker
\* takes a message that stays in the queue.
UploadStep(c) ==
    \/ UploadPutOk(c) \/ UploadPutFail(c)
    \/ UploadInsertOk(c) \/ UploadInsertFail(c)
    \/ UploadDelayOk(c) \/ UploadDelayFail(c)
    \/ UploadReturn(c)

WorkerStep(w) ==
    \/ Deliver(w)
    \/ FgetOk(w) \/ FgetFail(w)
    \/ EncodeOk(w) \/ EncodeFail(w)
    \/ AddDocumentOk(w) \/ AddDocumentFail(w)
    \/ UpdateStatusOk(w) \/ UpdateStatusFail(w)

FairSpec ==
    /\ Init /\ [][Next]_vars
    /\ \A c \in Uploaders : WF_vars(UploadStep(c))
    /\ \A w \in Workers : WF_vars(WorkerStep(w))

\* ---------------------------------------------------------------- helpers
InFlight(i) == \E w \in Workers : wpc[w] # "idle" /\ wjob[w] = i

\* ----------------------------------------------------------------- claims

\* C1: in every reachable state, a record whose status is Indexed has an
\* entry in the vector index under its image_id.
C1_IndexedHasEntry ==
    \A i \in Ids : status[i] = "indexed" => index[i] >= 1

\* C1 witness: a record became Indexed on a redelivery, after a delivery of
\* the same job had failed at the embedder.
C1_Witness ==
    \E i \in Ids : status[i] = "indexed" /\ index[i] >= 1 /\ embedFailed[i] >= 1

\* C2 (original claim): an index entry exists only for a record whose
\* status is Indexed.
C2_EntryOnlyIfIndexed ==
    \A i \in Ids : index[i] >= 1 => status[i] = "indexed"

\* C2 (amended): an index entry exists only for an id that has a record;
\* that record is Pending (the entry is written before the status, and stays
\* when the status write fails) or Indexed.
C2_EntryOnlyIfRecord ==
    \A i \in Ids : index[i] >= 1 => status[i] \in {"pending", "indexed"}

\* C2 witness: an entry exists for a Pending record that no task is
\* working on (the status write of the task failed).
C2_Witness ==
    \E i \in Ids : index[i] >= 1 /\ status[i] = "pending" /\ ~InFlight(i)

\* C3 (original claim): every change of an existing record's status is one
\* of the five transitions of the specified state machine.
SpecifiedTransitions ==
    { <<"pending", "indexing">>, <<"indexing", "indexed">>,
      <<"indexing", "failed">>, <<"indexing", "pending">>,
      <<"failed", "pending">> }

C4_RedeliveryIdempotent ==
    /\ [](\A i \in Ids : status[i] = "indexed" => index[i] = 1)
    /\ [][\A i \in Ids : status[i] = "indexed" => status'[i] = "indexed"]_vars

\* C4 witness: a job delivered when its record was already Indexed has
\* written the index again and is about to write the status.
C4_Witness ==
    \E w \in Workers :
        /\ wpc[w] = "update"
        /\ wredo[w]
        /\ status[wjob[w]] = "indexed"
        /\ index[wjob[w]] = 1

\* C5 (the claim): a job all of whose deliveries failed at the embedder, and
\* that has failed max_attempts times, has a record with status Failed.
C5_FailedAfterMaxAttempts ==
    \A i \in Ids :
        (embedFailed[i] >= max_attempts /\ delivered[i] = embedFailed[i])
            => status[i] = "failed"

\* C6: an upload whose blob write failed has created no metadata row and no
\* job, and returned no id to the caller.
C6_PutFailureUnobserved ==
    \A i \in Ids :
        uploadErr[i] = "put"
            => /\ status[i] = "none"
               /\ queue[i] = 0
               /\ delivered[i] = 0
               /\ returned[i] = 0

\* C6 witness: an upload has failed at the blob write.
C6_Witness ==
    \E i \in Ids : uploadErr[i] = "put" /\ i \notin blobs

\* C7: an id is returned at most once, the id of a starting upload is
\* neither stored nor returned before, a returned id has its blob and its
\* record, and a record is created with status Pending.
C7_ReturnedIdFreshAndStored ==
    /\ [](\A i \in Ids :
            returned[i] >= 1
                => returned[i] = 1 /\ i \in blobs /\ status[i] # "none")
    /\ [][/\ \A c \in Uploaders :
               (upc[c] = "idle" /\ upc'[c] = "put")
                   => /\ returned[uid'[c]] = 0
                      /\ status[uid'[c]] = "none"
                      /\ uid'[c] \notin blobs
          /\ \A i \in Ids :
               (status[i] = "none" /\ status'[i] # "none")
                   => status'[i] = "pending"]_vars

\* C7 witness: the upload has returned the id while its job is still in the
\* queue, undelivered, and the record is Pending.
C7_Witness ==
    \E i \in Ids :
        /\ returned[i] = 1
        /\ status[i] = "pending"
        /\ queue[i] = 1
        /\ delivered[i] = 0

\* C8 (the claim): a record whose enqueue failed eventually reaches Indexed
\* or Failed.
C8_LostEnqueueRecovered ==
    \A i \in Ids :
        (uploadErr[i] = "delay") ~> (status[i] \in {"indexed", "failed"})

\* C9 (the claim): a search with neither a text nor an image, in which no
\* call failed, ends as the caller-input error (400).
C9_NeitherIsInvalidQuery ==
    \A c \in Searchers :
        (/\ spc[c] = "done"
         /\ ~Truthy(stext[c])
         /\ simage[c] = "None"
         /\ sraised[c] # "error") => sout[c] = "400"

\* C10 (the claim): a search with both a text and an image computes its
\* query vector from neither and returns no result list.
C10_BothRejected ==
    \A c \in Searchers :
        (spc[c] = "done" /\ Truthy(stext[c]) /\ simage[c] # "None")
            => (sfrom[c] = "none" /\ sout[c] \notin {"results", "empty"})

\* C13 (the claim): of two concurrent deliveries of the same job at most one
\* has run the fetch, embed and upsert steps and is about to write the
\* status, and a delivery that found the record already Indexed writes
\* nothing.
C13_OneDeliveryActs ==
    /\ \A w1, w2 \in Workers :
        (w1 # w2 /\ wjob[w1] # NoId /\ wjob[w1] = wjob[w2])
            => ~(wpc[w1] = "update" /\ wpc[w2] = "update")
    /\ \A w \in Workers : wredo[w] => wpc[w] # "update"

\* C14 (the claim): when a worker dies before the record of its job is
\* Indexed, the message of the job is still in the queue.
C14_UnackedUntilIndexed ==
    [][\A w \in Workers :
          (WorkerCrash(w) /\ status'[wjob[w]] # "indexed")
              => queue'[wjob[w]] >= 1]_vars

\* C15 (the claim): a delivery whose embedding was the zero vector never
\* gets past the index write (it writes no entry and no status).
C15_ZeroVectorRejected ==
    \A w \in Workers : wemb[w] = "nan" => wpc[w] # "update"

\* C16: a delivery that ends at the blob fetch or at the embedder leaves the
\* vector index as it was, and an id all of whose deliveries ended at the
\* embedder has no index entry.
C16_FailedDeliveryLeavesIndex ==
    /\ [][\A w \in Workers :
            (wpc[w] \in {"fget", "encode"} /\ wpc'[w] = "idle")
                => index' = index]_vars
    /\ [](\A i \in Ids :
            (delivered[i] >= 1 /\ embedFailed[i] = delivered[i])
                => index[i] = 0)

\* C16 witness: two deliveries of a job have ended at the embedder, none is
\* running, and the index holds no entry for the id.
C16_Witness ==
    \E i \in Ids :
        /\ embedFailed[i] >= 2
        /\ embedFailed[i] = delivered[i]
        /\ ~InFlight(i)
        /\ index[i] = 0

\* C19: every job that is in the queue or being processed refers to an id
\* whose blob is stored and whose record is inserted.
C19_JobHasBlobAndRecord ==
    \A i \in Ids :
        (queue[i] >= 1 \/ InFlight(i))
            => (i \in blobs /\ status[i] # "none")

\* C19 witness: a worker is at the blob fetch of a job whose upload request
\* has not returned yet.
C19_Witness ==
    \E w \in Workers, c \in Uploaders :
        /\ wpc[w] = "fget"
        /\ upc[c] = "return"
        /\ uid[c] = wjob[w]
        /\ wjob[w] \in blobs
        /\ status[wjob[w]] = "pending"

\* A valid query: exactly one of a text and an image.
ValidQuery(c) == Truthy(stext[c]) # (simage[c] # "None")

\* C11 (original claim): a valid search never ends in an error outcome.
C11_ValidSearchNeverErrors ==
    \A c \in Searchers :
        (spc[c] = "done" /\ ValidQuery(c)) => sout[c] \in {"results", "empty"}

\* C11 (amended): for a valid query, a failed index query gives the empty
\* result list, and the search ends in the 500 outcome exactly when loading
\* the model or encoding the query raised.
C11_OnlyIndexFailureDegrades ==
    \A c \in Searchers :
        (spc[c] = "done" /\ ValidQuery(c))
            => /\ sout[c] \in {"results", "empty", "500"}
               /\ sknn[c] = "failed" => (sout[c] = "empty" /\ sres[c] = <<>>)
               /\ sout[c] = "500" <=> sraised[c] = "error"

\* C11 witness: one valid search got the empty list from a failed index
\* query while another valid search ended as 500 on an embedder failure.
C11_Witness ==
    \E c, d \in Searchers :
        /\ spc[c] = "done" /\ ValidQuery(c)
        /\ sknn[c] = "failed" /\ sout[c] = "empty"
        /\ spc[d] = "done" /\ ValidQuery(d)
        /\ sraised[d] = "error" /\ sout[d] = "500"

\* C12 (the claim): a search whose index query succeeded returns exactly
\* min(top_k, N) results, the nearest documents in descending similarity.
C12_KnnExact ==
    \A c \in Searchers :
        (spc[c] = "done" /\ sknn[c] = "ok")
            => LET N == Cardinality(Docs(index))
                   k == FormTopK(stopk[c])
               IN /\ Len(sres[c]) = (IF k < N THEN k ELSE N)
                  /\ sres[c] = Knn(Docs(index), sq[c], k)

\* C17 (the claim): the query vector of an image search is computed from
\* the image that this search supplied.
C17_OwnImageEncoded ==
    \A c \in Searchers : sfrom[c] = "image" => sq[c] = simage[c]

\* C18 (the claim): the top_k written into the KNN query never exceeds the
\* maximum top_k, and is 10 when the caller supplies none.
C18_TopKClamped ==
    \A c \in Searchers :
        sknn[c] # "none"
            => /\ KnnTopK(c) <= max_top_k
               /\ stopk[c] = <<>> => KnnTopK(c) = DefaultTopK

====
